---- MODULE Spec2Model ----
(***************************************************************************)
(* Session-token lifecycle of TripletexClient (auth.go, client.go).         *)
(*                                                                         *)
(* Time is counted in ticks; a calendar day has TicksPerDay ticks, so a    *)
(* date-only string names a whole day and time.Time values are finer than  *)
(* dates.  The issuance endpoint and the HTTP transport are the            *)
(* environment: every response they can give is drawn nondeterministically.*)
(***************************************************************************)
EXTENDS Integers, Sequences, FiniteSets, TLC

\* ------------------------------------------------------------- bounds
\* Ticks in one calendar day (time.Time is finer than time.DateOnly).
TicksPerDay == 2
\* Last calendar day the clock reaches and the endpoint may name.
MaxDay == 2
\* Largest configured tokenDuration, in ticks.
MaxDuration == 2

MaxTime == (MaxDay + 1) * TicksPerDay - 1
Times == 0..MaxTime
Days == 0..MaxDay

\* The callers of the client's public API.
Callers == {"c1"}

\* ------------------------------------------------------------- values
\* A *T that may be nil: <<>> is nil, <<v>> points to v.
Nil == <<>>
Ptr(v) == <<v>>
IsNil(p) == p = <<>>
Deref(p) == p[1]

AccessTokens == {"tokA", "tokB"}

\* auth.go: type Token struct { ExpiresAt time.Time; AccessToken string }
Token(a, e) == [AccessToken |-> a, ExpiresAt |-> e]
Tokens == {Token(a, e) : a \in AccessTokens, e \in Times}
TokenPtrs == {Nil} \cup {Ptr(t) : t \in Tokens}

\* client.go: type Credentials struct { ConsumerToken, EmployeeToken, clientId }
\* clientId 0 is the zero value: WithAccountantClient was not used.
ClientIds == {0, 42}
CredentialsSet ==
    {[ConsumerToken |-> "consumer", EmployeeToken |-> "employee", clientId |-> i] :
        i \in ClientIds}

\* The base URL: the default, or one url.Parse rejects (missing scheme).
DefaultBaseURL == "https://tripletex.no/v2"
BaseURLs == {DefaultBaseURL, ":malformed"}

\* http.NewRequest fails exactly when the URL does not parse.
NewRequestOK(url) == url # ":malformed"

\* ------------------------------------------------------- date-only strings
\* A string handed to time.Parse(time.DateOnly, s): well formed and naming a
\* day, or text the layout rejects.
DateString(d) == [wf |-> TRUE, day |-> d]
MalformedDate == [wf |-> FALSE, day |-> 0]

\* t.Format(time.DateOnly): the day of t, the time of day dropped.
FormatDateOnly(t) == DateString(t \div TicksPerDay)

\* time.Parse(time.DateOnly, s): midnight of the day, or an error.
ParseDateOnly_EndOfDay(s) ==
    IF s.wf THEN [ok |-> TRUE, t |-> s.day * TicksPerDay + (TicksPerDay - 1)]
            ELSE [ok |-> FALSE, t |-> 0]
ParseDateOnly(s) ==
    IF s.wf THEN [ok |-> TRUE, t |-> s.day * TicksPerDay]
            ELSE [ok |-> FALSE, t |-> 0]

\* strconv-style decimal rendering of a non-negative integer.
Digit == <<"0", "1", "2", "3", "4", "5", "6", "7", "8", "9">>
RECURSIVE Itoa(_)
Itoa(n) == IF n < 10 THEN Digit[n + 1]
           ELSE Itoa(n \div 10) \o Digit[(n % 10) + 1]

\* ------------------------------------------------------------ HTTP values
\* The Authorization header of an outgoing API request.
NoAuth == [scheme |-> "none", username |-> "", password |-> ""]
PresetAuth == [scheme |-> "Bearer", username |-> "", password |-> "preset"]
InHeaders == {NoAuth, PresetAuth}

\* r.SetBasicAuth(username, password)
SetBasicAuth(username, password) ==
    [scheme |-> "Basic", username |-> username, password |-> password]

\* The issuance request: PUT {baseURL}/token/session/:create?...
IssuanceRequest_Accountant(url, creds, expiresAt) ==
    [method |-> "PUT",
     url |-> url,
     path |-> "/token/session/:create",
     consumerToken |-> IF creds.clientId = 0 THEN creds.ConsumerToken ELSE Itoa(creds.clientId),
     employeeToken |-> creds.EmployeeToken,
     expirationDate |-> FormatDateOnly(expiresAt)]
IssuanceRequest(url, creds, expiresAt) ==
    [method |-> "PUT",
     url |-> url,
     path |-> "/token/session/:create",
     consumerToken |-> creds.ConsumerToken,
     employeeToken |-> creds.EmployeeToken,
     expirationDate |-> FormatDateOnly(expiresAt)]

\* Response bodies.  "unreadable": io.ReadAll fails; "unparsable": empty or
\* not JSON; "json": a ResponseWrapperSessionToken whose Value, Token and
\* ExpirationDate are pointers that may be nil.
SessionTokens ==
    {[Token |-> tk, ExpirationDate |-> ed] :
        tk \in {Nil} \cup {Ptr(a) : a \in AccessTokens},
        ed \in {Nil, Ptr(MalformedDate)} \cup {Ptr(DateString(d)) : d \in Days}}
Bodies ==
    {[kind |-> "unreadable", Value |-> Nil], [kind |-> "unparsable", Value |-> Nil],
     [kind |-> "json", Value |-> Nil]}
    \cup {[kind |-> "json", Value |-> Ptr(v)] : v \in SessionTokens}

StatusOK == 200
StatusUnprocessableEntity == 422
Statuses == {StatusOK, StatusUnprocessableEntity}

\* What httpClient.Do returns: a transport error, or a response.
NoBody == [kind |-> "unreadable", Value |-> Nil]
Responses ==
    {[transport |-> "error", StatusCode |-> 0, Body |-> NoBody]}
    \cup {[transport |-> "ok", StatusCode |-> s, Body |-> b] : s \in Statuses, b \in Bodies}

\* ------------------------------------------------------------ pure code
\* auth.go:85 IsTokenValid: false without a token, else time.Now().Before(ExpiresAt).
IsTokenValid_NotAfter(tok, t) ==
    IF IsNil(tok) THEN FALSE ELSE t <= Deref(tok).ExpiresAt
IsTokenValid(tok, t) ==
    IF IsNil(tok) THEN FALSE ELSE t < Deref(tok).ExpiresAt

\* auth.go:96 CheckAuth revalidates exactly when the token is not valid.
ShouldRevalidate_Always(tok, t) == TRUE
ShouldRevalidate_Inverted(tok, t) == IsTokenValid(tok, t)
ShouldRevalidate(tok, t) == ~IsTokenValid(tok, t)

\* auth.go:113 the Basic-auth username interceptAuth uses.
BasicAuthUsername_ClientId(creds) ==
    IF creds.clientId # 0 THEN Itoa(creds.clientId) ELSE "0"
BasicAuthUsername(creds) == "0"

\* The errors revalidate returns, by the message each carries.
ErrCreate == "failed to create http request"
ErrDo == "failed to do http request"
ErrStatus == "status not OK"
ErrRead == "failed to read response body"
ErrParse == "failed to parse response body"
ErrValueEmpty == "session token value body is empty"
ErrExpirationDateEmpty == "session token expirationDate is empty"
ErrParseExpiresAt == "failed to parse expiresAt"
NoError == "nil"
ResponseErrors ==
    {ErrDo, ErrStatus, ErrRead, ErrParse, ErrValueEmpty, ErrExpirationDateEmpty,
     ErrParseExpiresAt}
Errors == {ErrCreate} \cup ResponseErrors

\* An early `return fmt.Errorf(...)` of revalidate: c.token is not assigned.
Fail_ClearsToken(e, held) == [err |-> e, token |-> Nil, panicked |-> FALSE]
Fail(e, held) == [err |-> e, token |-> held, panicked |-> FALSE]

\* auth.go:39 the status test.
StatusNotOK_Skipped(res) == FALSE
StatusNotOK(res) == res.StatusCode # StatusOK

\* auth.go:34-43 the body of the response Do returned, once revalidate is
\* over: there is none after a transport error; the non-200 return at line
\* 40 comes before "defer res.Body.Close()" at line 43; every later return,
\* and the panic of line 69, runs the deferred Close.
BodyAfter(res) ==
    IF res.transport = "error" THEN "none"
    ELSE IF StatusNotOK(res) THEN "open"
    ELSE "closed"

\* auth.go:68-71 c.token = &Token{...}: the issued token replaces whatever
\* is held.
Install_KeepsHeld(issued, held) == IF IsNil(held) THEN Ptr(issued) ELSE held
Install(issued, held) == Ptr(issued)

\* auth.go:34-73 revalidate from the return of httpClient.Do on: the error it
\* returns, the token the client holds afterwards, and whether it panicked
\* (line 69 dereferences sessionToken.Token without a nil test).
revalidateResponse(res, held) ==
    IF res.transport = "error" THEN Fail(ErrDo, held)
    ELSE IF StatusNotOK(res) THEN Fail(ErrStatus, held)
    ELSE IF res.Body.kind = "unreadable" THEN Fail(ErrRead, held)
    ELSE IF res.Body.kind = "unparsable" THEN Fail(ErrParse, held)
    ELSE IF IsNil(res.Body.Value) THEN Fail(ErrValueEmpty, held)
    ELSE LET sessionToken == Deref(res.Body.Value) IN
         IF IsNil(sessionToken.ExpirationDate) THEN Fail(ErrExpirationDateEmpty, held)
         ELSE LET parsed == ParseDateOnly(Deref(sessionToken.ExpirationDate)) IN
              IF ~parsed.ok THEN Fail(ErrParseExpiresAt, held)
              ELSE IF IsNil(sessionToken.Token)
                   THEN [err |-> NoError, token |-> held, panicked |-> TRUE]
              ELSE [err |-> NoError,
                    token |-> Install(Token(Deref(sessionToken.Token), parsed.t), held),
                    panicked |-> FALSE]

\* ------------------------------------------------------------------ state
VARIABLES
    now,            \* the wall clock, in ticks
    token,          \* TripletexClient.token (*Token)
    tokenDuration,  \* TripletexClient.tokenDuration
    credentials,    \* TripletexClient.credentials
    baseURL,        \* TripletexClient.baseURL
    frame,          \* per caller: the API call it is in and how far it got
    wire,           \* per caller: its issuance request in flight (Nil: none)
    origin,         \* history: what installed the held token
    cal,            \* history: when New ran, and whether with the default duration
    builders,       \* the field selector builders and their maps
    legacy          \* pkg/tripletex: the Token of NewToken and its call

vars == <<now, token, tokenDuration, credentials, baseURL, frame, wire, origin, cal, builders, legacy>>
config == <<tokenDuration, credentials, baseURL>>
\* The state of the other components, which no method of the client touches.
aux == <<cal, builders, legacy>>

\* client.go:70-74 New at time t; default: no WithTokenDuration was given.
Built(t, default) == [at |-> t, default |-> default]

\* No legacy Token has been made.
NoLegacy == <<>>

\* No builder has been used.
FbIdle == <<>>

Ops == {"IsTokenValid", "GetToken", "SetToken", "CheckAuth", "interceptAuth"}

\* The calls that authenticate: CheckAuth, and interceptAuth which calls it.
AuthOps == {"CheckAuth", "interceptAuth"}

\* A caller that is in no call.  checked: what the call's IsTokenValid test
\* saw; nsent: issuance requests the call has sent; err: the error returned;
\* inAuth/auth: the request's Authorization header on entry and now; got:
\* what GetToken returned; res: what httpClient.Do returned to the call;
\* body: whether the call holds a response body, "open" or "closed".
IdleFrame ==
    [op |-> "none", pc |-> "idle", checked |-> "none", nsent |-> 0, err |-> NoError,
     inAuth |-> NoAuth, auth |-> NoAuth, got |-> Nil, res |-> Nil, body |-> "none"]

\* The frame of a call that has just been made.
Entered(o, h) ==
    [op |-> o, pc |-> "entered", checked |-> "none", nsent |-> 0, err |-> NoError,
     inAuth |-> h, auth |-> h, got |-> Nil, res |-> Nil, body |-> "none"]

Validity(b) == IF b THEN "valid" ELSE "invalid"

\* A panic ends the process.
Crashed == \E c \in DOMAIN frame : frame[c].pc = "panic"
CanCall(c) == ~Crashed /\ frame[c].pc \in {"idle", "done"}

\* client.go:69 New(credentials, options...): no token; the options set the
\* duration, the base URL and the accountant client id.
Init ==
    /\ now = 0
    /\ token = Nil
    /\ tokenDuration \in 0..MaxDuration
    /\ credentials \in CredentialsSet
    /\ baseURL \in BaseURLs
    /\ frame = [c \in Callers |-> IdleFrame]
    /\ wire = [c \in Callers |-> Nil]
    /\ origin = "none"
    /\ legacy = NoLegacy
    /\ cal = Built(0, FALSE)
    /\ builders = FbIdle

\* ---------------------------------------------------------------- actions
\* auth.go:97-99 and 110-112: CheckAuth wraps revalidate's error and returns
\* it; interceptAuth returns it before it reaches SetBasicAuth.
ReturnError_Retries(f, e, tok) == [f EXCEPT !.pc = "revalidate"]
ReturnError_Attaches(f, e, tok) ==
    [f EXCEPT !.pc = "done", !.err = e,
              !.auth = IF f.op = "interceptAuth"
                       THEN SetBasicAuth("0", IF IsNil(tok) THEN "" ELSE Deref(tok).AccessToken)
                       ELSE f.auth]
ReturnError(f, e, tok) == [f EXCEPT !.pc = "done", !.err = e]

\* auth.go:100-101 and 113: CheckAuth returns nil; interceptAuth goes on to
\* attach the credentials.
ReturnChecked(f) ==
    [f EXCEPT !.pc = IF f.op = "interceptAuth" THEN "SetBasicAuth" ELSE "done"]

\* auth.go:95-96 the test CheckAuth starts with.
AfterCheck(f, tok, t) ==
    LET g == [f EXCEPT !.checked = Validity(IsTokenValid(tok, t))] IN
    IF ShouldRevalidate(tok, t) THEN [g EXCEPT !.pc = "revalidate"] ELSE ReturnChecked(g)

\* auth.go:85 a caller calls IsTokenValid.
CallIsTokenValid(c) ==
    /\ CanCall(c)
    /\ frame' = [frame EXCEPT ![c] =
            [Entered("IsTokenValid", NoAuth) EXCEPT
                !.pc = "done", !.checked = Validity(IsTokenValid(token, now))]]
    /\ UNCHANGED <<now, token, config, wire, origin, aux>>

\* auth.go:76 a caller calls GetToken.
GetToken(c) ==
    /\ CanCall(c)
    /\ frame' = [frame EXCEPT ![c] =
            [Entered("GetToken", NoAuth) EXCEPT !.pc = "done", !.got = token]]
    /\ UNCHANGED <<now, token, config, wire, origin, aux>>

\* auth.go:80 a caller calls SetToken(t), t nil or a token.
SetToken(c, t) ==
    /\ CanCall(c)
    /\ token' = t
    /\ frame' = [frame EXCEPT ![c] = [Entered("SetToken", NoAuth) EXCEPT !.pc = "done"]]
    /\ origin' = "SetToken"
    /\ UNCHANGED <<now, config, wire, aux>>

\* auth.go:95 a caller calls CheckAuth.
CheckAuth(c) ==
    /\ CanCall(c)
    /\ frame' = [frame EXCEPT ![c] = AfterCheck(Entered("CheckAuth", NoAuth), token, now)]
    /\ UNCHANGED <<now, token, config, wire, origin, aux>>

\* auth.go:109-110 the request pipeline calls interceptAuth on a request whose
\* Authorization header is h.
interceptAuth(c, h) ==
    /\ CanCall(c)
    /\ frame' = [frame EXCEPT ![c] = AfterCheck(Entered("interceptAuth", h), token, now)]
    /\ UNCHANGED <<now, token, config, wire, origin, aux>>

\* auth.go:20-34 revalidate up to httpClient.Do: the request is built and sent.
revalidateSend(c) ==
    /\ ~Crashed
    /\ frame[c].pc = "revalidate"
    /\ IF NewRequestOK(baseURL)
       THEN /\ wire' = [wire EXCEPT ![c] =
                    Ptr(IssuanceRequest(baseURL, credentials, now + tokenDuration))]
            /\ frame' = [frame EXCEPT ![c].pc = "Do", ![c].nsent = @ + 1]
       ELSE /\ frame' = [frame EXCEPT ![c] = ReturnError(frame[c], ErrCreate, token)]
            /\ UNCHANGED wire
    /\ UNCHANGED <<now, token, config, origin, aux>>

\* auth.go:34-74 httpClient.Do returns res and revalidate runs to its end.
revalidateReceive(c, res) ==
    /\ ~Crashed
    /\ frame[c].pc = "Do"
    /\ ~IsNil(wire[c])
    /\ LET r == revalidateResponse(res, token)
           f == [frame[c] EXCEPT !.res = Ptr(res), !.body = BodyAfter(res)]
       IN
        /\ token' = r.token
        /\ origin' = IF r.err = NoError /\ ~r.panicked THEN "revalidate" ELSE origin
        /\ frame' = [frame EXCEPT ![c] =
                IF r.panicked THEN [f EXCEPT !.pc = "panic"]
                ELSE IF r.err # NoError THEN ReturnError(f, r.err, token)
                ELSE ReturnChecked(f)]
    /\ wire' = [wire EXCEPT ![c] = Nil]
    /\ UNCHANGED <<now, config, aux>>

\* auth.go:113-116 interceptAuth attaches the credentials and returns nil
\* (c.token.AccessToken panics on a nil token).
interceptAuthAttach(c) ==
    /\ ~Crashed
    /\ frame[c].pc = "SetBasicAuth"
    /\ frame' = [frame EXCEPT ![c] =
            IF IsNil(token) THEN [frame[c] EXCEPT !.pc = "panic"]
            ELSE [frame[c] EXCEPT
                    !.pc = "done",
                    !.auth = SetBasicAuth(BasicAuthUsername(credentials),
                                          Deref(token).AccessToken)]]
    /\ UNCHANGED <<now, token, config, wire, origin, aux>>

\* The wall clock advances.
Tick ==
    /\ ~Crashed
    /\ now < MaxTime
    /\ now' = now + 1
    /\ UNCHANGED <<token, config, frame, wire, origin, aux>>

Next ==
    \/ Tick
    \/ \E c \in Callers :
        \/ CallIsTokenValid(c)
        \/ GetToken(c)
        \/ \E t \in TokenPtrs : SetToken(c, t)
        \/ CheckAuth(c)
        \/ \E h \in InHeaders : interceptAuth(c, h)
        \/ revalidateSend(c)
        \/ \E res \in Responses : revalidateReceive(c, res)
        \/ interceptAuthAttach(c)

Spec == Init /\ [][Next]_vars

\* ----------------------------------------------------------------- claims
\* A call of c has returned nil / an error.
ReturnedNil(c) == frame[c].pc = "done" /\ frame[c].err = NoError
ReturnedError(c) == frame[c].pc = "done" /\ frame[c].err # NoError

\* C1: IsTokenValid returns false when no token is held, and with a token
\* held returns true exactly when now is strictly before ExpiresAt (false at
\* now = ExpiresAt and later); the call changes nothing of the client.
C1_IsTokenValid ==
    [][\A c \in Callers :
        CallIsTokenValid(c) =>
            /\ IsNil(token) => frame'[c].checked = "invalid"
            /\ ~IsNil(token) =>
                    (frame'[c].checked = "valid" <=> now < Deref(token).ExpiresAt)
            /\ ~IsNil(token) /\ now >= Deref(token).ExpiresAt =>
                    frame'[c].checked = "invalid"
            /\ UNCHANGED <<now, token, config, wire>>]_vars

\* C1 witness: IsTokenValid has just answered false at now = ExpiresAt.
C1_Witness ==
    \E c \in Callers :
        /\ frame[c].op = "IsTokenValid" /\ frame[c].pc = "done"
        /\ frame[c].checked = "invalid"
        /\ ~IsNil(token) /\ now = Deref(token).ExpiresAt /\ now > 0

\* The step in which c's revalidate installs a token and returns nil.
RefreshSucceeds(c) ==
    /\ frame[c].pc = "Do"
    /\ frame'[c].pc \in {"done", "SetBasicAuth"}
    /\ frame'[c].err = NoError

\* C2: after a successful refresh IsTokenValid is true, and stays true at
\* every later time strictly before the installed expiry, whatever date the
\* endpoint returned with HTTP 200 and whatever the token duration.
C2_ValidAfterRefresh ==
    /\ [][\A c \in Callers : RefreshSucceeds(c) => IsTokenValid(token', now')]_vars
    /\ [](\A c \in Callers :
            /\ frame[c].op = "CheckAuth" /\ ReturnedNil(c)
            /\ frame[c].checked = "invalid"
            /\ ~IsNil(token) /\ now < Deref(token).ExpiresAt
            => IsTokenValid(token, now))

\* C3 as claimed: a call of CheckAuth or interceptAuth sends no issuance
\* request when its test saw a valid token, and exactly one when it saw an
\* absent or expired one.
C3_RequestIffInvalid ==
    \A c \in Callers :
        frame[c].op \in AuthOps =>
            /\ frame[c].checked = "valid" => frame[c].nsent = 0
            /\ frame[c].checked = "invalid" /\ frame[c].pc \in {"SetBasicAuth", "done"}
                    => frame[c].nsent = 1

\* C3 amended: with a valid token no request is sent and the token is left
\* alone; with an absent or expired token revalidate runs once and sends
\* exactly one request, unless the request cannot be built (the base URL does
\* not parse): then none is sent and the call returns the error.  Credentials
\* are attached only after the check, and after the one request when the
\* token was invalid.
C3_RequestIffInvalidAndBuilt ==
    /\ [](\A c \in Callers :
            frame[c].op \in AuthOps =>
                /\ frame[c].checked = "valid" => frame[c].nsent = 0
                /\ frame[c].checked = "invalid" /\ frame[c].pc \in {"SetBasicAuth", "done"}
                        => /\ frame[c].nsent = IF NewRequestOK(baseURL) THEN 1 ELSE 0
                           /\ ~NewRequestOK(baseURL) => frame[c].err = ErrCreate
                /\ frame[c].auth # frame[c].inAuth
                        => /\ ReturnedNil(c)
                           /\ frame[c].checked = "invalid" => frame[c].nsent = 1)
    /\ [][\A c \in Callers :
            /\ frame'[c] # frame[c]
            /\ frame'[c].op \in AuthOps
            /\ frame'[c].checked = "valid"
            => token' = token]_vars

\* C3 witness: an interceptAuth that saw an invalid token sent one request
\* and then attached credentials.
C3_Witness ==
    \E c \in Callers :
        /\ frame[c].op = "interceptAuth" /\ ReturnedNil(c)
        /\ frame[c].checked = "invalid" /\ frame[c].nsent = 1
        /\ frame[c].auth.scheme = "Basic"

C5_ClientIdIsUsername ==
    \A c \in Callers :
        /\ frame[c].op = "interceptAuth" /\ ReturnedNil(c)
        /\ credentials.clientId # 0
        => frame[c].auth.username = Itoa(credentials.clientId)

\* C6: a refresh that fails leaves the held token as it was (same
\* AccessToken and ExpiresAt, or still absent) on every failure path: no step
\* of a call that ends in an error changes the token.
C6_FailedRefreshKeepsToken ==
    [][\A c \in Callers :
        /\ frame'[c] # frame[c]
        /\ frame'[c].op \in AuthOps
        /\ \/ frame'[c].pc \in {"revalidate", "Do"}
           \/ frame'[c].pc = "done" /\ frame'[c].err # NoError
        => token' = token]_vars

\* C6 witness: a refresh failed on a malformed expirationDate while an
\* expired token was held, and that token is still held.
C6_Witness ==
    \E c \in Callers :
        /\ frame[c].op = "CheckAuth" /\ ReturnedError(c)
        /\ frame[c].err = ErrParseExpiresAt
        /\ ~IsNil(token) /\ Deref(token).ExpiresAt <= now

\* A response revalidate must refuse: not 200, or no value, or no
\* expirationDate, or an expirationDate that is no date.
HasValue(res) == res.Body.kind = "json" /\ ~IsNil(res.Body.Value)
WellFormedPayload(res) ==
    /\ HasValue(res)
    /\ ~IsNil(Deref(res.Body.Value).Token)
    /\ ~IsNil(Deref(res.Body.Value).ExpirationDate)
    /\ Deref(Deref(res.Body.Value).ExpirationDate).wf
Refused(res) ==
    /\ res.transport = "ok"
    /\ \/ res.StatusCode # 200
       \/ ~HasValue(res)
       \/ IsNil(Deref(res.Body.Value).ExpirationDate)
       \/ ~Deref(Deref(res.Body.Value).ExpirationDate).wf

\* C7: revalidate returns an error and installs nothing on every refused
\* response; the status is tested first, so a non-200 response is refused
\* with the status error even when its body is a well-formed token payload.
C7_RefusedResponses ==
    [][\A c \in Callers :
        /\ frame[c].pc = "Do" /\ frame'[c].pc # "Do"
        /\ Refused(Deref(frame'[c].res))
        => /\ frame'[c].pc = "done"
           /\ frame'[c].err \in ResponseErrors
           /\ Deref(frame'[c].res).StatusCode # 200 => frame'[c].err = ErrStatus
           /\ token' = token]_vars

\* C7 witness: a 422 response carrying a well-formed token payload was
\* refused with the status error.
C7_Witness ==
    \E c \in Callers :
        /\ ReturnedError(c) /\ frame[c].err = ErrStatus
        /\ ~IsNil(frame[c].res)
        /\ Deref(frame[c].res).StatusCode = 422
        /\ WellFormedPayload(Deref(frame[c].res))

\* C8: no retry: one call sends at most one issuance request; when that
\* request fails the call returns the error after exactly one request and
\* leaves none in flight; a request is sent only by a call that has sent none.
C8_NoRetry ==
    /\ [](\A c \in Callers :
            /\ frame[c].nsent <= 1
            /\ ReturnedError(c) /\ frame[c].err \in ResponseErrors
                    => frame[c].nsent = 1 /\ IsNil(wire[c]))
    /\ [][\A c \in Callers :
            ~IsNil(wire'[c]) /\ wire'[c] # wire[c] => frame[c].nsent = 0]_vars

\* C8 witness: a call returned a transport error after its one request.
C8_Witness ==
    \E c \in Callers :
        /\ ReturnedError(c) /\ frame[c].err = ErrDo
        /\ frame[c].nsent = 1

\* C9: when interceptAuth fails it returns the error of its CheckAuth and the
\* request's Authorization header is as it was on entry; the header is changed
\* only by a call that returns nil.
C9_NoCredentialsOnError ==
    \A c \in Callers :
        frame[c].op = "interceptAuth" =>
            /\ ReturnedError(c) => frame[c].auth = frame[c].inAuth /\ frame[c].err \in Errors
            /\ frame[c].auth # frame[c].inAuth => ReturnedNil(c)

\* C9 witness: a failed interceptAuth left a preset Authorization header alone.
C9_Witness ==
    \E c \in Callers :
        /\ frame[c].op = "interceptAuth" /\ ReturnedError(c)
        /\ frame[c].inAuth = PresetAuth /\ frame[c].auth = PresetAuth

\* C10: refresh is reactive: New leaves no request in flight; a request in
\* flight belongs to a CheckAuth or interceptAuth call whose test saw an
\* invalid token; and a request is sent only by the revalidate step of such a
\* call, never by GetToken, SetToken, IsTokenValid or the passing of time.
C10_ReactiveRefresh ==
    /\ (\A c \in Callers : IsNil(wire[c]))
    /\ [](\A c \in Callers :
            ~IsNil(wire[c]) =>
                /\ frame[c].op \in AuthOps
                /\ frame[c].checked = "invalid"
                /\ frame[c].pc = "Do")
    /\ [][\A c \in Callers :
            ~IsNil(wire'[c]) /\ wire'[c] # wire[c] =>
                /\ frame[c].pc = "revalidate"
                /\ frame[c].op \in AuthOps
                /\ frame[c].checked = "invalid"]_vars

\* C10 witness: a request is in flight, sent by a CheckAuth that found no token.
C10_Witness ==
    \E c \in Callers :
        /\ ~IsNil(wire[c])
        /\ frame[c].op = "CheckAuth" /\ frame[c].checked = "invalid"
        /\ IsNil(token)

\* The step in which c enters CheckAuth or interceptAuth.
EntersAuth(c) ==
    /\ frame[c].pc \in {"idle", "done"}
    /\ frame'[c] # frame[c]
    /\ frame'[c].op \in AuthOps

\* The token a well-formed payload issues: its token string, expiring at
\* midnight of its expirationDate.
Issued(res) ==
    Token(Deref(Deref(res.Body.Value).Token),
          Deref(Deref(res.Body.Value).ExpirationDate).day * TicksPerDay)

\* The warm start up to the request count: a token set unexpired is valid;
\* while it is held and unexpired, calls send nothing, leave it alone and
\* attach its AccessToken; a refresh that succeeds on a set token replaces it
\* wholesale with the issued one, after one request.
WarmStartCommon ==
    /\ [][\A c \in Callers :
            /\ frame'[c].op = "SetToken" /\ frame'[c] # frame[c]
               /\ ~IsNil(token') /\ now' < Deref(token').ExpiresAt
               => IsTokenValid(token', now')
            /\ EntersAuth(c) /\ origin = "SetToken"
               /\ ~IsNil(token) /\ now < Deref(token).ExpiresAt
               => /\ frame'[c].checked = "valid"
                  /\ frame'[c].nsent = 0
                  /\ frame'[c].pc \in {"done", "SetBasicAuth"}
                  /\ wire' = wire /\ token' = token
            /\ EntersAuth(c) /\ origin = "SetToken"
               /\ ~IsNil(token) /\ now >= Deref(token).ExpiresAt
               => frame'[c].pc = "revalidate"
            /\ RefreshSucceeds(c) /\ origin = "SetToken"
               => /\ frame'[c].nsent = 1
                  /\ token' = Ptr(Issued(Deref(frame'[c].res)))]_vars
    /\ [](\A c \in Callers :
            /\ origin = "SetToken" /\ frame[c].op = "interceptAuth"
            /\ frame[c].checked = "valid" /\ ReturnedNil(c)
            => /\ frame[c].nsent = 0
               /\ frame[c].auth.password = Deref(token).AccessToken)

\* C11 as claimed: warm start, and after SetToken with an expired token the
\* next CheckAuth sends exactly one issuance request.
C11_WarmStart ==
    /\ WarmStartCommon
    /\ [](\A c \in Callers :
            /\ origin = "SetToken" /\ ~IsNil(token)
            /\ frame[c].op = "CheckAuth" /\ frame[c].checked = "invalid"
            /\ frame[c].pc = "done"
            => frame[c].nsent = 1)

\* C11 amended: as claimed, except that the CheckAuth after SetToken with an
\* expired token sends exactly one issuance request only when the request
\* can be built; with a base URL that does not parse it sends none and
\* returns the construction error, the set token still held.
C11_WarmStartWhenBuilt ==
    /\ WarmStartCommon
    /\ [](\A c \in Callers :
            /\ origin = "SetToken" /\ ~IsNil(token)
            /\ frame[c].op = "CheckAuth" /\ frame[c].checked = "invalid"
            /\ frame[c].pc = "done"
            => /\ frame[c].nsent = IF NewRequestOK(baseURL) THEN 1 ELSE 0
               /\ frame[c].err # NoError
               /\ ~NewRequestOK(baseURL) => frame[c].err = ErrCreate)

\* C11 witness: after SetToken an interceptAuth found the token valid, sent
\* nothing and attached the set token's AccessToken.
C11_Witness ==
    \E c \in Callers :
        /\ origin = "SetToken" /\ frame[c].op = "interceptAuth"
        /\ frame[c].checked = "valid" /\ ReturnedNil(c)
        /\ frame[c].nsent = 0
        /\ frame[c].auth.password = Deref(token).AccessToken

\* ------------------------------------------------- the caller's pointers
\* auth.go:76-82: GetToken returns c.token itself and SetToken stores the
\* caller's pointer, so after either call the caller holds a pointer to the
\* very Token the client holds.
HoldsAlias(c) ==
    /\ frame[c].pc = "done"
    /\ ~IsNil(token)
    /\ \/ frame[c].op = "GetToken" /\ frame[c].got = token
       \/ frame[c].op = "SetToken"

\* The caller assigns through that pointer (*tok = v, or one of its fields).
CallerWrite(c, v) ==
    /\ ~Crashed
    /\ HoldsAlias(c)
    /\ v # Deref(token)
    /\ token' = Ptr(v)
    /\ frame' = [frame EXCEPT ![c].got = IF frame[c].op = "GetToken" THEN Ptr(v) ELSE @]
    /\ origin' = "CallerWrite"
    /\ UNCHANGED <<now, config, wire, aux>>

NextAlias ==
    \/ Next
    \/ \E c \in Callers, v \in Tokens : CallerWrite(c, v)

\* The client together with a caller that writes to the Tokens it was handed.
SpecAlias == Init /\ [][NextAlias]_vars

\* C12: a write of the caller to the value it got from GetToken, or to the
\* value it passed to SetToken, leaves the held token as it was: the same
\* IsTokenValid result and the same password for interceptAuth to attach.
C12_CopyOnly ==
    [][\A c \in Callers, v \in Tokens :
          CallerWrite(c, v)
          => /\ IsTokenValid(token', now') = IsTokenValid(token, now)
             /\ Deref(token').AccessToken = Deref(token).AccessToken]_vars

\* ------------------------------------------------------------ the calendar
\* Day 0 of the clock is January 1 of FirstYear (a leap year), in UTC.
FirstYear == 2024
\* Last day on which the client is constructed, and the days it is then used.
MaxBuiltDay == 31
MaxAgeDays == 2

IsLeap(y) == y % 4 = 0 /\ (y % 100 # 0 \/ y % 400 = 0)

\* Days of month m (1..12) of year y.
daysIn(y, m) ==
    IF m = 2 THEN (IF IsLeap(y) THEN 29 ELSE 28)
    ELSE IF m \in {4, 6, 9, 11} THEN 30 ELSE 31

daysInYear(y) == IF IsLeap(y) THEN 366 ELSE 365

RECURSIVE daysBeforeYear(_)
daysBeforeYear(y) ==
    IF y <= FirstYear THEN 0 ELSE daysBeforeYear(y - 1) + daysInYear(y - 1)

RECURSIVE daysBefore(_, _)
daysBefore(y, m) ==
    IF m <= 1 THEN 0 ELSE daysBefore(y, m - 1) + daysIn(y, m - 1)

\* time.Date(y, m, d, ...) as a day of the clock, normalising as Go does:
\* month 13 is January of the next year, and a day past the end of its
\* month runs on into the following month.
Date(y, m, d) ==
    LET yy == IF m > 12 THEN y + 1 ELSE y
        mm == IF m > 12 THEN m - 12 ELSE m
    IN daysBeforeYear(yy) + daysBefore(yy, mm) + (d - 1)

\* t.Date(): the year, month and day of a day of the clock.
RECURSIVE yearOf(_, _)
yearOf(n, y) == IF n < daysInYear(y) THEN [y |-> y, yday |-> n]
                ELSE yearOf(n - daysInYear(y), y + 1)
RECURSIVE monthOf(_, _, _)
monthOf(n, y, m) == IF n < daysIn(y, m) THEN [m |-> m, d |-> n + 1]
                    ELSE monthOf(n - daysIn(y, m), y, m + 1)
DateOf(n) ==
    LET yr == yearOf(n, FirstYear)
        mo == monthOf(yr.yday, yr.y, 1)
    IN [y |-> yr.y, m |-> mo.m, d |-> mo.d]

\* t.AddDate(0, 1, 0): the same day of the next month, normalised; the time
\* of day is kept.
AddMonth(t) ==
    LET dt == DateOf(t \div TicksPerDay)
    IN Date(dt.y, dt.m + 1, dt.d) * TicksPerDay + (t % TicksPerDay)

\* client.go:70-74 the default tokenDuration: now.AddDate(0, 1, 0).Sub(now),
\* with now the time New runs.
DefaultTokenDuration(t) == AddMonth(t) - t

\* client.go:69-92 New on any day up to MaxBuiltDay (at midnight: AddDate
\* keeps the time of day), with the default tokenDuration or with
\* WithTokenDuration.
InitDate ==
    /\ now \in {d * TicksPerDay : d \in 0..MaxBuiltDay}
    /\ \E default \in BOOLEAN :
        /\ cal = Built(now, default)
        /\ tokenDuration \in IF default THEN {DefaultTokenDuration(now)}
                                        ELSE 0..MaxDuration
    /\ token = Nil
    /\ credentials \in {cr \in CredentialsSet : cr.clientId = 0}
    /\ baseURL = DefaultBaseURL
    /\ frame = [c \in Callers |-> IdleFrame]
    /\ wire = [c \in Callers |-> Nil]
    /\ origin = "none"
    /\ legacy = NoLegacy
    /\ builders = FbIdle

\* The wall clock advances while the client is in use.
TickDate ==
    /\ ~Crashed
    /\ now < cal.at + MaxAgeDays * TicksPerDay
    /\ now' = now + 1
    /\ UNCHANGED <<token, config, frame, wire, origin, aux>>

\* The endpoint issues a token that expires on the date it was asked for.
Echo(req) ==
    [transport |-> "ok", StatusCode |-> StatusOK,
     Body |-> [kind |-> "json",
               Value |-> Ptr([Token |-> Ptr("tokA"),
                              ExpirationDate |-> Ptr(req.expirationDate)])]]

NextDate ==
    \/ TickDate
    \/ \E c \in Callers :
        \/ CheckAuth(c)
        \/ revalidateSend(c)
        \/ /\ ~IsNil(wire[c])
           /\ revalidateReceive(c, Echo(Deref(wire[c])))

\* The client over months of the calendar, refreshing against the endpoint.
SpecDate == InitDate /\ [][NextDate]_vars

\* The step in which c's revalidate sends its request.
Sends(c) == frame[c].pc = "revalidate" /\ frame'[c].pc = "Do"

\* C13: every refresh asks for the date of (time of the refresh + the
\* configured duration), and with the default configuration that date is
\* one calendar month after the time of the refresh.
C13_RequestedExpiry ==
    [][\A c \in Callers :
          Sends(c)
          => /\ Deref(wire'[c]).expirationDate = FormatDateOnly(now + tokenDuration)
             /\ cal.default
                => Deref(wire'[c]).expirationDate = FormatDateOnly(AddMonth(now))]_vars

\* ------------------------------------------------------ concurrent callers
\* Two goroutines share one client; each step of a call below reads or
\* writes c.token at most once, so the interleavings of the steps are the
\* interleavings of the accesses.
ConcCallers == {"c1", "c2"}

\* The tokens the callers restore, and what the endpoint answers: a token
\* with a date, or a transport error.
ConcTokenPtrs == {Nil, Ptr(Token("tokA", 0)), Ptr(Token("tokB", MaxTime))}
ConcResponses ==
    {r \in Responses :
        \/ r.transport = "error"
        \/ r.StatusCode = StatusOK /\ WellFormedPayload(r)}

InitConc ==
    /\ now = 0
    /\ token = Nil
    /\ tokenDuration = MaxDuration
    /\ credentials \in {cr \in CredentialsSet : cr.clientId = 0}
    /\ baseURL = DefaultBaseURL
    /\ frame = [c \in ConcCallers |-> IdleFrame]
    /\ wire = [c \in ConcCallers |-> Nil]
    /\ origin = "none"
    /\ legacy = NoLegacy
    /\ cal = Built(0, FALSE)
    /\ builders = FbIdle

NextConc ==
    \/ Tick
    \/ \E c \in ConcCallers :
        \/ \E t \in ConcTokenPtrs : SetToken(c, t)
        \/ CheckAuth(c)
        \/ interceptAuth(c, NoAuth)
        \/ revalidateSend(c)
        \/ \E res \in ConcResponses : revalidateReceive(c, res)
        \/ interceptAuthAttach(c)

SpecConc == InitConc /\ [][NextConc]_vars

\* C14: no locking.  Concurrent callers that both saw an invalid token each
\* send their own request, and each success installs its own result over
\* whatever is held, the other caller's result included: the token held is
\* the one installed last.
C14_LastWriteWins ==
    [][\A c \in ConcCallers :
          /\ frame'[c].pc = "revalidate" /\ frame[c].pc # "revalidate"
             => frame'[c].checked = "invalid"
          /\ Sends(c) => /\ ~IsNil(wire'[c])
                         /\ \A d \in ConcCallers \ {c} : wire'[d] = wire[d]
          /\ RefreshSucceeds(c)
             => /\ token' = Ptr(Issued(Deref(frame'[c].res)))
                /\ origin' = "revalidate"]_vars

\* C14 witness: both callers saw the token invalid and have their issuance
\* request in flight at the same time.
C14_Witness ==
    \A c \in ConcCallers :
        frame[c].checked = "invalid" /\ frame[c].pc = "Do" /\ ~IsNil(wire[c])

\* C15: an interceptAuth whose check returned nil finds a held token when it
\* attaches, and attaches that token's AccessToken, in every interleaving
\* with the other caller's SetToken, CheckAuth and interceptAuth.
C15_AtomicEnsureValid ==
    [][\A c \in ConcCallers :
          frame[c].pc = "SetBasicAuth" /\ frame'[c].pc # "SetBasicAuth"
          => /\ ~IsNil(token)
             /\ frame'[c].pc = "done"
             /\ frame'[c].auth.password = Deref(token).AccessToken]_vars

\* ------------------------------------------------- field selector strings
\* A Go string is the sequence of its characters; Code is the byte value
\* that strings compare by.
Code ==
    ("!" :> 33) @@ ("(" :> 40) @@ (")" :> 41) @@ ("*" :> 42) @@ ("," :> 44) @@
    ("a" :> 97) @@ ("c" :> 99) @@ ("d" :> 100) @@ ("e" :> 101) @@ ("i" :> 105) @@
    ("j" :> 106) @@ ("l" :> 108) @@ ("m" :> 109) @@ ("n" :> 110) @@ ("o" :> 111) @@
    ("p" :> 112) @@ ("r" :> 114) @@ ("s" :> 115) @@ ("t" :> 116)

\* The field names in use, character by character.
Chars ==
    ("*" :> <<"*">>) @@ ("id" :> <<"i", "d">>) @@ ("id!" :> <<"i", "d", "!">>) @@
    ("name" :> <<"n", "a", "m", "e">>) @@ ("email" :> <<"e", "m", "a", "i", "l">>) @@
    ("orders" :> <<"o", "r", "d", "e", "r", "s">>) @@
    ("project" :> <<"p", "r", "o", "j", "e", "c", "t">>)

\* s < t on strings: byte-wise lexicographic, a proper prefix first.
RECURSIVE Less(_, _)
Less(s, t) ==
    IF t = <<>> THEN FALSE
    ELSE IF s = <<>> THEN TRUE
    ELSE IF Code[Head(s)] # Code[Head(t)] THEN Code[Head(s)] < Code[Head(t)]
    ELSE Less(Tail(s), Tail(t))

\* slices.Sort(s) on a []string: ascending by Less.
RECURSIVE InsertSorted(_, _)
InsertSorted(x, s) ==
    IF s = <<>> THEN <<x>>
    ELSE IF Less(Head(s), x) THEN <<Head(s)>> \o InsertSorted(x, Tail(s))
    ELSE <<x>> \o s
RECURSIVE SortedOf(_)
SortedOf(s) == IF s = <<>> THEN <<>> ELSE InsertSorted(Head(s), SortedOf(Tail(s)))
Sort_Skipped(s) == s
Sort(s) == SortedOf(s)

\* strings.Join(s, ",")
RECURSIVE Join(_)
Join(s) ==
    IF s = <<>> THEN <<>>
    ELSE IF Len(s) = 1 THEN s[1]
    ELSE s[1] \o <<",">> \o Join(Tail(s))

\* fmt.Sprintf("%s(%s)", k, inner)
Sprintf_Unclosed(k, inner) == Chars[k] \o <<"(">> \o inner
Sprintf_EmptyBare(k, inner) ==
    IF inner = <<>> THEN Chars[k] ELSE Chars[k] \o <<"(">> \o inner \o <<")">>
Sprintf(k, inner) == Chars[k] \o <<"(">> \o inner \o <<")">>

\* ------------------------------------------------ field selector builder
\* type fields map[string]*fields: a function from the names present to Nil
\* (a leaf) or Ptr(the nested map).
EmptyMap == [k \in {} |-> Nil]
MapSet(m, k, v) == [n \in DOMAIN m \cup {k} |-> IF n = k THEN v ELSE m[n]]

\* maps.Copy(dst, src): every entry of src is stored in dst (the nested maps
\* are shared, and no builder method writes to a nested map).
MapsCopy_KeepsDst(dst, src) ==
    [n \in DOMAIN dst \cup DOMAIN src |-> IF n \in DOMAIN dst THEN dst[n] ELSE src[n]]
MapsCopy(dst, src) ==
    [n \in DOMAIN dst \cup DOMAIN src |-> IF n \in DOMAIN src THEN src[n] ELSE dst[n]]

\* type builderStruct struct { fields fields }; Nil is the nil map.
builderStruct(m) == [fields |-> m]

\* tripletex.go:96 var Builder = &builderStruct{}
BuilderZero == builderStruct(Nil)

\* "if fb.fields == nil { fb.fields = make(fields) }", then the map.
made(fb) == IF IsNil(fb.fields) THEN EmptyMap ELSE Deref(fb.fields)

\* tripletex.go:106 New, 120 All, 138 Add: the receiver afterwards.
New == builderStruct(Ptr(EmptyMap))
All(fb) == builderStruct(Ptr(MapSet(made(fb), "*", Nil)))
Add_KeepsEntry(fb, name) ==
    IF name \in DOMAIN made(fb) THEN builderStruct(Ptr(made(fb)))
    ELSE builderStruct(Ptr(MapSet(made(fb), name, Nil)))
Add(fb, name) == builderStruct(Ptr(MapSet(made(fb), name, Nil)))

\* The arguments of Group are of type any: a string, a *builderStruct, or
\* a value of a type the switch has no case for.
Str(n) == [kind |-> "string", name |-> n, builder |-> BuilderZero]
Bld(b) == [kind |-> "builder", name |-> "", builder |-> b]
Other == [kind |-> "other", name |-> "", builder |-> BuilderZero]

\* tripletex.go:173-183 the loop of Group over its arguments.
RECURSIVE nestedFields(_)
nestedFields_OtherClears(f) ==
    IF f = <<>> THEN EmptyMap
    ELSE LET acc == nestedFields(SubSeq(f, 1, Len(f) - 1))
             field == f[Len(f)]
         IN IF field.kind = "string" THEN MapSet(acc, field.name, Nil)
            ELSE IF field.kind = "builder" THEN MapsCopy(acc, made(field.builder))
            ELSE EmptyMap
nestedFields(f) ==
    IF f = <<>> THEN EmptyMap
    ELSE LET acc == nestedFields(SubSeq(f, 1, Len(f) - 1))
             field == f[Len(f)]
         IN IF field.kind = "string" THEN MapSet(acc, field.name, Nil)
            ELSE IF field.kind = "builder" THEN MapsCopy(acc, made(field.builder))
            ELSE acc

\* tripletex.go:168-187 Group: fb.fields[name] = &nestedFields.
Group_Merges(fb, name, f) ==
    LET m == made(fb)
        old == IF name \in DOMAIN m /\ ~IsNil(m[name]) THEN Deref(m[name]) ELSE EmptyMap
    IN builderStruct(Ptr(MapSet(m, name, Ptr(MapsCopy(old, nestedFields(f))))))
Group(fb, name, f) ==
    builderStruct(Ptr(MapSet(made(fb), name, Ptr(nestedFields(f)))))

\* tripletex.go:221-233 fieldsToString: the strings it may return, over all
\* the orders in which the range over the map may visit its entries, at
\* every level.  appended(input, S): the slices s the loop may have built
\* once it has visited the keys S.
RECURSIVE fieldsToString(_), appended(_, _)
appended(input, S) ==
    IF S = {} THEN {<<>>}
    ELSE UNION {
            {Append(s, e) :
                s \in appended(input, S \ {k}),
                e \in IF IsNil(input[k]) THEN {Chars[k]}
                      ELSE {Sprintf(k, r) : r \in fieldsToString(Deref(input[k]))}} :
            k \in S}
fieldsToString(input) == {Join(Sort(s)) : s \in appended(input, DOMAIN input)}

\* tripletex.go:213 String: fieldsToString(fb.fields); a nil map has no
\* entries.
String_Wildcard(fb) ==
    IF DOMAIN made(fb) = {} THEN {<<"*">>} ELSE fieldsToString(made(fb))
String(fb) == fieldsToString(made(fb))

\* ------------------------------------------------- the builders in use
\* The calling code uses the package-level Builder and a variable x that
\* holds the result of Builder.New().
BuilderHandles == {"Builder", "x"}

\* The names it passes to Add and Group, and the argument lists of Group.
FieldNames == {"id", "id!"}
GroupArgs ==
    {<<Str("id!")>>,
     <<Str("*"), Other, Bld(Group(New, "id", <<Str("id!")>>))>>}

\* builders.obj: the builderStruct behind each handle.  History: out, what
\* String returned since the last change (Nil: not called); first, the first
\* name stored at the top level; over, whether the last call was a Group
\* that replaced a subtree holding a name its own arguments do not give.
BuildersInit ==
    [obj |-> [h \in BuilderHandles |-> IF h = "Builder" THEN BuilderZero ELSE New],
     out |-> [h \in BuilderHandles |-> Nil],
     first |-> [h \in BuilderHandles |-> Nil],
     over |-> FALSE]

\* The client is constructed and left alone; the builders are as the
\* package initialises them, with x := Builder.New().
InitFields ==
    /\ now = 0
    /\ token = Nil
    /\ tokenDuration = MaxDuration
    /\ credentials \in {cr \in CredentialsSet : cr.clientId = 0}
    /\ baseURL = DefaultBaseURL
    /\ frame = [c \in Callers |-> IdleFrame]
    /\ wire = [c \in Callers |-> Nil]
    /\ origin = "none"
    /\ legacy = NoLegacy
    /\ cal = Built(0, FALSE)
    /\ builders = BuildersInit

client == <<now, token, config, frame, wire, origin, cal, legacy>>

\* A call on handle b that leaves it as fb: the history follows.
Stored(b, fb, name, replaced) ==
    [builders EXCEPT
        !.obj[b] = fb,
        !.out[b] = Nil,
        !.first[b] = IF IsNil(@) THEN Ptr(name) ELSE @,
        !.over = replaced]

\* x = Builder.New()
CallNew ==
    /\ builders' = [builders EXCEPT !.obj["x"] = New, !.out["x"] = Nil,
                                    !.first["x"] = Nil, !.over = FALSE]
    /\ UNCHANGED client

CallAll(b) ==
    /\ builders' = Stored(b, All(builders.obj[b]), "*", FALSE)
    /\ UNCHANGED client

CallAdd(b, name) ==
    /\ builders' = Stored(b, Add(builders.obj[b], name), name, FALSE)
    /\ UNCHANGED client

CallGroup(b, name, f) ==
    LET m == made(builders.obj[b])
        old == IF name \in DOMAIN m /\ ~IsNil(m[name]) THEN Deref(m[name]) ELSE EmptyMap
    IN
    /\ builders' = Stored(b, Group(builders.obj[b], name, f), name,
                          \E k \in DOMAIN old : k \notin DOMAIN nestedFields(f))
    /\ UNCHANGED client

CallString(b) ==
    /\ \E r \in String(builders.obj[b]) :
            builders' = [builders EXCEPT !.out[b] = Ptr(r), !.over = FALSE]
    /\ UNCHANGED client

NextFields ==
    \/ CallNew
    \/ \E b \in BuilderHandles :
        \/ CallAll(b)
        \/ \E name \in FieldNames : CallAdd(b, name)
        \/ \E name \in FieldNames, f \in GroupArgs : CallGroup(b, name, f)
        \/ CallString(b)

SpecFields == InitFields /\ [][NextFields]_vars

\* ------------------------------------------------ the selection grammar
\* The entries of a serialization: s cut at the commas outside parentheses.
RECURSIVE Split(_, _, _, _)
Split(s, depth, cur, acc) ==
    IF s = <<>> THEN Append(acc, cur)
    ELSE IF Head(s) = "," /\ depth = 0 THEN Split(Tail(s), 0, <<>>, Append(acc, cur))
    ELSE Split(Tail(s),
               IF Head(s) = "(" THEN depth + 1
               ELSE IF Head(s) = ")" THEN depth - 1 ELSE depth,
               Append(cur, Head(s)), acc)

\* s is a serialization of the map m: one entry per name of m, a leaf as its
\* bare name, a name with a subtree as name(serialization of the subtree),
\* the entries separated by single commas and nothing else.
RECURSIVE Serializes(_, _)
Serializes(s, m) ==
    IF DOMAIN m = {} THEN s = <<>>
    ELSE LET entries == Split(s, 0, <<>>, <<>>) IN
         /\ Len(entries) = Cardinality(DOMAIN m)
         /\ \A k \in DOMAIN m : \E i \in 1..Len(entries) :
                LET e == entries[i]
                    n == Len(Chars[k])
                IN IF IsNil(m[k]) THEN e = Chars[k]
                   ELSE /\ Len(e) >= n + 2
                        /\ SubSeq(e, 1, n) = Chars[k]
                        /\ e[n + 1] = "(" /\ e[Len(e)] = ")"
                        /\ Serializes(SubSeq(e, n + 2, Len(e) - 1), Deref(m[k]))

\* C16: what String returns is the reference serialization of the tree the
\* builder holds (the order of the entries left open); and the two examples:
\* New().All().Group("orders","id",New().Group("project","id")) gives
\* "*,orders(id,project(id))" and New().All() gives "*".
C16_ReferenceSerialization ==
    /\ \A b \in BuilderHandles :
            ~IsNil(builders.out[b])
            => Serializes(Deref(builders.out[b]), made(builders.obj[b]))
    /\ String(Group(All(New), "orders",
                    <<Str("id"), Bld(Group(New, "project", <<Str("id")>>))>>))
       = {<<"*", ",", "o", "r", "d", "e", "r", "s", "(", "i", "d", ",",
            "p", "r", "o", "j", "e", "c", "t", "(", "i", "d", ")", ")">>}
    /\ String(All(New)) = {<<"*">>}

\* C16 witness: String returned "*,id(*,id(id!))" for a tree with a leaf and
\* a group inside a group.
C16_Witness ==
    /\ builders.out["x"] =
            Ptr(<<"*", ",", "i", "d", "(", "*", ",", "i", "d", "(", "i", "d", "!", ")", ")">>)
    /\ DOMAIN made(builders.obj["x"]) = {"*", "id"}

\* The names S in lexicographic order.
RECURSIVE NameOrder(_)
NameOrder(S) ==
    IF S = {} THEN <<>>
    ELSE LET k == CHOOSE k \in S : \A o \in S \ {k} : Less(Chars[k], Chars[o])
         IN <<k>> \o NameOrder(S \ {k})

\* The serialization of m with the entries of every level in lexicographic
\* order of their names.
RECURSIVE InNameOrder(_)
InNameOrder(m) ==
    LET order == NameOrder(DOMAIN m)
    IN Join([i \in 1..Len(order) |->
                IF IsNil(m[order[i]]) THEN Chars[order[i]]
                ELSE Chars[order[i]] \o <<"(">> \o InNameOrder(Deref(m[order[i]])) \o <<")">>])

\* C17: at every level of what String returns the entries are in
\* lexicographic order of their names, leaf or group, whatever the names.
C17_SortedByName ==
    \A b \in BuilderHandles :
        ~IsNil(builders.out[b])
        => Deref(builders.out[b]) = InNameOrder(made(builders.obj[b]))

\* C18: the output does not depend on the order of construction: String has
\* one possible result for the tree held, two builders holding the same
\* tree return the same string, and Add("name").Add("email") and
\* Add("email").Add("name") both give "email,name".
C18_OrderIndependent ==
    /\ \A b \in BuilderHandles : Cardinality(String(builders.obj[b])) = 1
    /\ \A b1, b2 \in BuilderHandles :
            /\ ~IsNil(builders.out[b1]) /\ ~IsNil(builders.out[b2])
            /\ made(builders.obj[b1]) = made(builders.obj[b2])
            => builders.out[b1] = builders.out[b2]
    /\ String(Add(Add(New, "name"), "email")) = {Chars["email"] \o <<",">> \o Chars["name"]}
    /\ String(Add(Add(New, "email"), "name")) = {Chars["email"] \o <<",">> \o Chars["name"]}

\* C18 witness: Builder and x were filled in different orders, hold the same
\* tree of several entries, and String returned the same for both.
C18_Witness ==
    /\ ~IsNil(builders.first["Builder"]) /\ ~IsNil(builders.first["x"])
    /\ builders.first["Builder"] # builders.first["x"]
    /\ made(builders.obj["Builder"]) = made(builders.obj["x"])
    /\ Cardinality(DOMAIN made(builders.obj["x"])) >= 2
    /\ ~IsNil(builders.out["x"])
    /\ builders.out["Builder"] = builders.out["x"]

\* C19: no builder operation changes the package-level Builder instance.
C19_NoGlobalState ==
    [][builders'.obj["Builder"] = builders.obj["Builder"]]_vars

\* Argument i of f gives the name k.
Gives(f, i, k) ==
    \/ f[i].kind = "string" /\ f[i].name = k
    \/ f[i].kind = "builder" /\ k \in DOMAIN made(f[i].builder)

\* C20: Group(name, f...) leaves at name the subtree built from f alone: it
\* holds exactly the names f gives, each as its last giver gives it, so
\* nothing of an earlier Group for that name survives; every other entry of
\* the level is as before.
C20_GroupOverwrites ==
    [][\A b \in BuilderHandles, name \in FieldNames, f \in GroupArgs :
          CallGroup(b, name, f)
          => LET before == made(builders.obj[b])
                 after == made(builders'.obj[b])
             IN /\ DOMAIN after = DOMAIN before \cup {name}
                /\ \A k \in DOMAIN before \ {name} : after[k] = before[k]
                /\ ~IsNil(after[name])
                /\ LET sub == Deref(after[name]) IN
                   /\ \A k \in FieldNames \cup {"*"} :
                        k \in DOMAIN sub <=> \E i \in 1..Len(f) : Gives(f, i, k)
                   /\ \A k \in DOMAIN sub :
                        LET i == CHOOSE i \in 1..Len(f) :
                                    /\ Gives(f, i, k)
                                    /\ \A j \in 1..Len(f) : Gives(f, j, k) => j <= i
                        IN sub[k] = IF f[i].kind = "string" THEN Nil
                                    ELSE made(f[i].builder)[k]]_vars

\* C20 witness: the last call was a Group on a name whose earlier subtree
\* held a name the call did not give.
C20_Witness == builders.over

\* ---------------------------------------------------- one call of Group
\* Longest argument list of the Group call.
MaxMembers == 2

\* The builders passed as members, and the receivers: one whose map was
\* never made, an empty one, ones holding a leaf and a group.
MemberBuilders ==
    {BuilderZero, Add(New, "id"), Group(New, "id", <<Str("id!")>>)}
Receivers == {BuilderZero, New, Add(New, "id"), Group(New, "id", <<Str("*")>>)}
Members ==
    {Str(n) : n \in FieldNames \cup {"*"}} \cup {Bld(b) : b \in MemberBuilders} \cup {Other}
MemberLists == UNION {[1..n -> Members] : n \in 0..MaxMembers}

\* The client constructed and not used.
ClientUnused ==
    /\ now = 0
    /\ token = Nil
    /\ tokenDuration = MaxDuration
    /\ credentials \in {cr \in CredentialsSet : cr.clientId = 0}
    /\ baseURL = DefaultBaseURL
    /\ frame = [c \in Callers |-> IdleFrame]
    /\ wire = [c \in Callers |-> Nil]
    /\ origin = "none"
    /\ cal = Built(0, FALSE)

\* A receiver, a name and an argument list; result: the receiver after the
\* call (Nil: not called yet).
InitGroup ==
    /\ ClientUnused
    /\ legacy = NoLegacy
    /\ \E fb \in Receivers, name \in FieldNames, f \in MemberLists :
            builders = [fb |-> fb, name |-> name, f |-> f, result |-> Nil]

\* fb.Group(name, f...)
ApplyGroup ==
    /\ IsNil(builders.result)
    /\ builders' = [builders EXCEPT
                        !.result = Ptr(Group(builders.fb, builders.name, builders.f))]
    /\ UNCHANGED client

SpecGroup == InitGroup /\ [][ApplyGroup]_vars

\* What member i contributes for the name k it gives.
EntryOf(f, i, k) == IF f[i].kind = "string" THEN Nil ELSE made(f[i].builder)[k]

\* C21: Group stores at name the union of its members in argument order: a
\* string gives a leaf, a builder every top-level entry it holds with its
\* subtree, and for a name given twice the later member's entry stands.
C21_GroupUnion ==
    ~IsNil(builders.result)
    => LET f == builders.f
           after == made(Deref(builders.result))
       IN /\ builders.name \in DOMAIN after
          /\ ~IsNil(after[builders.name])
          /\ LET sub == Deref(after[builders.name]) IN
             /\ DOMAIN sub = {k \in FieldNames \cup {"*"} :
                                \E i \in 1..Len(f) : Gives(f, i, k)}
             /\ \A i \in 1..Len(f), k \in DOMAIN sub :
                    /\ Gives(f, i, k)
                    /\ \A j \in (i + 1)..Len(f) : ~Gives(f, j, k)
                    => sub[k] = EntryOf(f, i, k)

\* C21 witness: Group was called with a string "id" and then a builder that
\* holds a group "id"; the group stands.
C21_Witness ==
    /\ ~IsNil(builders.result)
    /\ builders.f = <<Str("id"), Bld(Group(New, "id", <<Str("id!")>>))>>
    /\ made(Deref(builders.result))[builders.name] = Ptr("id" :> Ptr("id!" :> Nil))

\* C22: a builder with no entries serializes to the empty string, be it a
\* New() or one whose map was never made (Builder before any call on it).
C22_EmptyString ==
    /\ \A b \in BuilderHandles :
            ~IsNil(builders.out[b]) /\ DOMAIN made(builders.obj[b]) = {}
            => builders.out[b] = Ptr(<<>>)
    /\ String(New) = {<<>>}
    /\ String(BuilderZero) = {<<>>}

\* C22 witness: String returned "" for Builder, its map never made, and for
\* x, fresh from New().
C22_Witness ==
    /\ IsNil(builders.obj["Builder"].fields) /\ builders.out["Builder"] = Ptr(<<>>)
    /\ builders.obj["x"] = New /\ builders.out["x"] = Ptr(<<>>)

\* ------------------------------------------------ the end of revalidate
\* C23: revalidate ends by returning nil or an error, never by crashing,
\* whatever the endpoint sends.
C23_NeverCrashes ==
    [][\A c \in Callers :
          frame[c].pc = "Do" /\ frame'[c].pc # "Do"
          => /\ frame'[c].pc # "panic"
             /\ frame'[c].pc \in {"done", "SetBasicAuth"}]_vars

\* C24: on success revalidate installs what the endpoint returned, the token
\* string and midnight of the returned expirationDate, whatever date its
\* request asked for.
C24_InstallsReturned ==
    [][\A c \in Callers :
          RefreshSucceeds(c)
          => LET v == Deref(Deref(frame'[c].res).Body.Value)
                 asked == Deref(wire[c]).expirationDate
             IN /\ ~IsNil(token')
                /\ Deref(token').AccessToken = Deref(v.Token)
                /\ Deref(token').ExpiresAt = Deref(v.ExpirationDate).day * TicksPerDay
                /\ Deref(token').ExpiresAt % TicksPerDay = 0
                /\ asked # Deref(v.ExpirationDate)
                   => Deref(token').ExpiresAt # asked.day * TicksPerDay]_vars

\* C24 witness: a refresh succeeded and the token held expires at midnight
\* of the returned date, which is later than any date the request can have
\* asked for.
C24_Witness ==
    \E c \in Callers :
        /\ ReturnedNil(c) /\ frame[c].nsent = 1 /\ origin = "revalidate"
        /\ token = Ptr(Issued(Deref(frame[c].res)))
        /\ Deref(token).ExpiresAt > now + tokenDuration

\* C25: with one call at a time, whenever CheckAuth has returned nil the
\* client holds a token, so interceptAuth finds one to read when it
\* attaches and never crashes there.
C25_TokenHeldAfterCheck ==
    /\ [](\A c \in Callers :
            /\ frame[c].op \in AuthOps
            /\ frame[c].pc = "SetBasicAuth" \/ ReturnedNil(c)
            => ~IsNil(token))
    /\ [][\A c \in Callers :
            frame[c].pc = "SetBasicAuth" /\ frame'[c].pc # "SetBasicAuth"
            => frame'[c].pc = "done"]_vars

\* C25 witness: interceptAuth found no valid token, refreshed, and attached
\* the AccessToken of the token it then found.
C25_Witness ==
    \E c \in Callers :
        /\ frame[c].op = "interceptAuth" /\ ReturnedNil(c)
        /\ frame[c].checked = "invalid" /\ frame[c].nsent = 1
        /\ ~IsNil(token)
        /\ frame[c].auth = SetBasicAuth("0", Deref(token).AccessToken)

\* C26: the credentials never change, every issuance request carries the
\* consumerToken and employeeToken given to New, and its method, path and
\* three query parameters are the same with and without WithAccountantClient.
C26_CredentialsFixed ==
    /\ [][credentials' = credentials]_vars
    /\ [](\A c \in Callers :
            ~IsNil(wire[c])
            => LET r == Deref(wire[c]) IN
               /\ r.method = "PUT"
               /\ r.path = "/token/session/:create"
               /\ r.consumerToken = "consumer"
               /\ r.employeeToken = "employee"
               /\ DOMAIN r = {"method", "url", "path", "consumerToken",
                              "employeeToken", "expirationDate"}
               /\ \A id \in ClientIds : \E t \in 0..now :
                    r = IssuanceRequest(baseURL, [credentials EXCEPT !.clientId = id],
                                        t + tokenDuration))

\* C26 witness: a client built with WithAccountantClient(42), given a token
\* by SetToken, has an issuance request in flight.
C26_Witness ==
    \E c \in Callers :
        /\ credentials.clientId = 42
        /\ origin = "SetToken"
        /\ ~IsNil(wire[c]) /\ frame[c].pc = "Do"

\* C27: every response revalidate received has its body closed when
\* revalidate is over, on the success path and on every error path.
C27_BodyClosed ==
    \A c \in Callers :
        ~IsNil(frame[c].res) /\ Deref(frame[c].res).transport = "ok"
        => frame[c].body = "closed"

\* ------------------------------------------ pkg/tripletex: legacy Token
\* Last day of the clock while the legacy Token is used.
LegacyMaxDay == 33
LegacyMaxTime == (LegacyMaxDay + 1) * TicksPerDay - 1

\* The zero time.Time (year 1) of a Token that was never refreshed: before
\* every time of the clock.
ZeroTime == -1

\* authentication.go:26-30 NewToken(opts) with opts.ExpiresAt left nil: the
\* Token (ExpiresAt, Token, opts), and the CheckAuth call on it (pc), the
\* request it has in flight, and the error it returned.
NewToken ==
    [ExpiresAt |-> ZeroTime, Token |-> "", opts |-> [ExpiresAt |-> Nil],
     pc |-> "idle", req |-> Nil, err |-> NoError]

\* authentication.go:92-94 HasExpired: time.Now().UTC().After(t.ExpiresAt).
HasExpired(t, at) == at > t.ExpiresAt

\* authentication.go:40-43 opts.ExpiresAt is computed only while it is nil.
LegacyOptsExpiresAt(t, at) ==
    IF IsNil(t.opts.ExpiresAt) THEN Ptr(AddMonth(at)) ELSE t.opts.ExpiresAt

\* authentication.go:44-53 the request of the legacy revalidate.
LegacyRequest(expiresAt) ==
    [method |-> "PUT",
     url |-> DefaultBaseURL,
     path |-> "/token/session/:create",
     consumerToken |-> "consumer",
     employeeToken |-> "employee",
     expirationDate |-> FormatDateOnly(expiresAt)]

\* What Do returns to the legacy revalidate: a transport error, a 422, a 200
\* without a value, with an unparsable date, or with the token of the date
\* that was asked for.  The legacy SessionToken holds plain strings.
LegacyResponses(req) ==
    {[transport |-> "error", StatusCode |-> 0, Body |-> NoBody],
     [transport |-> "ok", StatusCode |-> StatusUnprocessableEntity, Body |-> NoBody],
     [transport |-> "ok", StatusCode |-> StatusOK, Body |-> [kind |-> "json", Value |-> Nil]]}
    \cup {[transport |-> "ok", StatusCode |-> StatusOK,
           Body |-> [kind |-> "json",
                     Value |-> Ptr([Token |-> "tokA", ExpirationDate |-> ed])]] :
            ed \in {MalformedDate, req.expirationDate}}

\* authentication.go:55-88 the legacy revalidate from the return of Do on.
legacyRevalidateResponse(t, res) ==
    IF res.transport = "error" THEN [t EXCEPT !.err = ErrDo]
    ELSE IF res.StatusCode # StatusOK THEN [t EXCEPT !.err = ErrStatus]
    ELSE IF res.Body.kind = "unreadable" THEN [t EXCEPT !.err = ErrRead]
    ELSE IF res.Body.kind = "unparsable" THEN [t EXCEPT !.err = ErrParse]
    ELSE IF IsNil(res.Body.Value) THEN [t EXCEPT !.err = ErrValueEmpty]
    ELSE LET sessionToken == Deref(res.Body.Value)
             parsed == ParseDateOnly(sessionToken.ExpirationDate)
         IN IF ~parsed.ok THEN [t EXCEPT !.err = ErrParseExpiresAt]
            ELSE [t EXCEPT !.Token = sessionToken.Token,
                           !.ExpiresAt = parsed.t,
                           !.err = NoError]

InitLegacy ==
    /\ ClientUnused
    /\ builders = FbIdle
    /\ legacy = NewToken

\* Everything but the legacy Token and the clock.
legacyRest == <<token, config, frame, wire, origin, cal, builders>>

\* authentication.go:97-104 CheckAuth up to the call of Do (lines 35-53 of
\* revalidate), or to its return when the Token has not expired.
LegacyCheckAuth ==
    /\ legacy.pc # "Do"
    /\ IF HasExpired(legacy, now)
       THEN LET e == LegacyOptsExpiresAt(legacy, now) IN
            legacy' = [legacy EXCEPT !.opts = [ExpiresAt |-> e],
                                     !.pc = "Do",
                                     !.req = Ptr(LegacyRequest(Deref(e))),
                                     !.err = NoError]
       ELSE legacy' = [legacy EXCEPT !.pc = "done", !.req = Nil, !.err = NoError]
    /\ UNCHANGED <<now, legacyRest>>

\* authentication.go:55-88 Do returns and revalidate, then CheckAuth, return.
LegacyDo ==
    /\ legacy.pc = "Do"
    /\ \E res \in LegacyResponses(Deref(legacy.req)) :
        legacy' = [legacyRevalidateResponse(legacy, res) EXCEPT
                        !.pc = "done", !.req = Nil]
    /\ UNCHANGED <<now, legacyRest>>

\* authentication.go:170-171 the caller assigns the exported field:
\* token.ExpiresAt = tmp.
LegacySetExpiresAt ==
    /\ legacy.pc # "Do"
    /\ \E d \in Days : legacy' = [legacy EXCEPT !.ExpiresAt = d * TicksPerDay]
    /\ UNCHANGED <<now, legacyRest>>

\* Time passes between the calls.
LegacyTick ==
    /\ legacy.pc # "Do"
    /\ now < LegacyMaxTime
    /\ now' = now + 1
    /\ UNCHANGED <<legacy, legacyRest>>

NextLegacy ==
    \/ LegacyTick
    \/ LegacyCheckAuth
    \/ LegacyDo
    \/ LegacySetExpiresAt

SpecLegacy == InitLegacy /\ [][NextLegacy]_vars

\* The step in which the legacy revalidate sends its request.
LegacySends == legacy.pc # "Do" /\ legacy'.pc = "Do"

\* C28: every refresh of the legacy Token, the first and each later one,
\* asks for the date one calendar month after the time of that refresh, a
\* date that is never before the day of the request.
C28_LegacyRequestedExpiry ==
    [][LegacySends
       => LET r == Deref(legacy'.req) IN
          /\ r.expirationDate = FormatDateOnly(AddMonth(now))
          /\ r.expirationDate.day >= now \div TicksPerDay]_vars

\* C29: the legacy CheckAuth sends a request exactly when the client's
\* CheckAuth would with a token of the same expiry: when the current time is
\* not strictly before the expiry.
C29_SameRefreshDecision ==
    [][legacy.pc # "Do" /\ legacy'.pc \in {"Do", "done"}
                        /\ legacy'.ExpiresAt = legacy.ExpiresAt
       => (legacy'.pc = "Do"
            <=> ShouldRevalidate(Ptr(Token(legacy.Token, legacy.ExpiresAt)), now))]_vars

\* ------------------------------------------- the builders' maps as objects
\* A Go map is a reference: type fields map[string]*fields.  Here every map
\* made by make(fields) is an object of a heap, and an entry holds the
\* object its *fields points to.
MaxMaps == 3

\* The keys the calling code uses.
HeapKeys == {"*", "id", "name"}

\* An entry of a map object: the key is absent, or holds a nil *fields, or
\* (a positive number) points to an object.  A builder's fields is nil
\* (NoMap) or an object.
Absent == -1
NilEntry == 0
NoMap == 0

\* make(fields)
EmptyObject == [k \in HeapKeys |-> Absent]

\* The members of a Group call: a string, or a builder of the calling code
\* (the receiver itself included).
HStr(n) == [kind |-> "string", name |-> n]
HBld(h) == [kind |-> "builder", name |-> h]
HeapMembers == {HStr("id")} \cup {HBld(h) : h \in BuilderHandles}
HeapMemberLists == UNION {[1..n -> HeapMembers] : n \in 1..MaxMembers}

\* tripletex.go:96,106 the package-level Builder, whose map was never
\* made, and x := Builder.New().  out: the builder whose String returned
\* since the last change (Nil: none); self: whether the last call was a
\* Group given its own receiver.
HeapInit ==
    [heap |-> <<EmptyObject>>,
     fields |-> [h \in BuilderHandles |-> IF h = "Builder" THEN NoMap ELSE 1],
     out |-> Nil,
     self |-> FALSE]

\* make(fields) into a new object.
heapMake(st) == [st EXCEPT !.heap = Append(@, EmptyObject)]

\* if fb.fields == nil { fb.fields = make(fields) }
heapLazy(st, h) ==
    IF st.fields[h] = NoMap
    THEN [heapMake(st) EXCEPT !.fields[h] = Len(st.heap) + 1]
    ELSE st

\* fb.fields[name] = nil, of All and Add.
heapAdd_Toggle(st, h, name) ==
    LET s1 == heapLazy(st, h) IN
    [s1 EXCEPT !.heap[s1.fields[h]][name] = IF @ = Absent THEN NilEntry ELSE Absent]
heapAdd(st, h, name) ==
    LET s1 == heapLazy(st, h) IN [s1 EXCEPT !.heap[s1.fields[h]][name] = NilEntry]

\* tripletex.go:173 nestedFields := make(fields): the object Group fills.
nestedObject_Reused(st, h, name) ==
    IF st.heap[st.fields[h]][name] > NilEntry
    THEN [st |-> st, id |-> st.heap[st.fields[h]][name]]
    ELSE [st |-> heapMake(st), id |-> Len(st.heap) + 1]
nestedObject(st, h, name) == [st |-> heapMake(st), id |-> Len(st.heap) + 1]

\* maps.Copy(dst, src): every entry of src is stored in dst, the pointer it
\* holds and not what the pointer points to; a nil src has no entries.
heapCopy(st, dst, src) ==
    IF src = NoMap THEN st
    ELSE [st EXCEPT !.heap[dst] =
            [k \in HeapKeys |-> IF st.heap[src][k] # Absent THEN st.heap[src][k]
                                                            ELSE st.heap[dst][k]]]

\* tripletex.go:174-183 the loop over the members, from member i on.
RECURSIVE heapFill(_, _, _, _)
heapFill(st, id, f, i) ==
    IF i > Len(f) THEN st
    ELSE heapFill(
            CASE f[i].kind = "string" -> [st EXCEPT !.heap[id][f[i].name] = NilEntry]
              [] f[i].kind = "builder" -> heapCopy(st, id, st.fields[f[i].name])
              [] OTHER -> st,
            id, f, i + 1)

\* tripletex.go:168-187 Group on the heap.
heapGroup_Alias(st, h, name, f) ==
    LET s1 == heapLazy(st, h) IN
    IF Len(f) = 1 /\ f[1].kind = "builder" /\ s1.fields[f[1].name] # NoMap
    THEN [s1 EXCEPT !.heap[s1.fields[h]][name] = s1.fields[f[1].name]]
    ELSE LET n == nestedObject(s1, h, name)
             s2 == heapFill(n.st, n.id, f, 1)
         IN [s2 EXCEPT !.heap[s1.fields[h]][name] = n.id]
heapGroup(st, h, name, f) ==
    LET s1 == heapLazy(st, h)
        n == nestedObject(s1, h, name)
        s2 == heapFill(n.st, n.id, f, 1)
    IN [s2 EXCEPT !.heap[s1.fields[h]][name] = n.id]

\* The objects the entries of object i point to.
Children(heap, i) == {heap[i][k] : k \in HeapKeys} \ {Absent, NilEntry}

\* tripletex.go:221-233 fieldsToString on object i returns: each recursive
\* call returns.  A chain of calls longer than the number of objects visits
\* an object twice and then never ends.
RECURSIVE Returns(_, _, _)
Returns(heap, i, fuel) ==
    /\ fuel > 0
    /\ \A c \in Children(heap, i) : Returns(heap, c, fuel - 1)

InitHeap ==
    /\ ClientUnused
    /\ legacy = NoLegacy
    /\ builders = HeapInit

\* The builders after a call that leaves them as st.
HeapStored(st, self) ==
    [st EXCEPT !.out = Nil, !.self = self]

\* x = Builder.New()
HeapCallNew ==
    /\ Len(builders.heap) < MaxMaps
    /\ builders' = HeapStored([heapMake(builders) EXCEPT
                                  !.fields["x"] = Len(builders.heap) + 1], FALSE)
    /\ UNCHANGED client

HeapCallAll(h) ==
    LET st == heapAdd(builders, h, "*") IN
    /\ Len(st.heap) <= MaxMaps
    /\ builders' = HeapStored(st, FALSE)
    /\ UNCHANGED client

HeapCallAdd(h, name) ==
    LET st == heapAdd(builders, h, name) IN
    /\ Len(st.heap) <= MaxMaps
    /\ builders' = HeapStored(st, FALSE)
    /\ UNCHANGED client

HeapCallGroup(h, name, f) ==
    LET st == heapGroup(builders, h, name, f) IN
    /\ Len(st.heap) <= MaxMaps
    /\ builders' = HeapStored(st, \E i \in 1..Len(f) : f[i] = HBld(h))
    /\ UNCHANGED client

\* fb.String() returns when the recursion of fieldsToString does.
StringReturns(st, h) ==
    IF st.fields[h] = NoMap THEN TRUE ELSE Returns(st.heap, st.fields[h], MaxMaps)

HeapCallString(h) ==
    /\ StringReturns(builders, h)
    /\ builders' = [builders EXCEPT !.out = Ptr(h)]
    /\ UNCHANGED client

NextHeap ==
    \/ HeapCallNew
    \/ \E h \in BuilderHandles :
        \/ HeapCallAll(h)
        \/ HeapCallAdd(h, "id")
        \/ \E name \in HeapKeys \ {"*"}, f \in HeapMemberLists :
                HeapCallGroup(h, name, f)
        \/ HeapCallString(h)

SpecHeap == InitHeap /\ [][NextHeap]_vars

\* The objects that are the map of a builder.
TopObjects == {builders.fields[h] : h \in BuilderHandles} \ {NoMap}

\* C30: no map object is reachable from itself, so fieldsToString returns
\* on every builder, also after a Group call given its own receiver; and a
\* map that is not the map of a builder never changes, so the objects two
\* groups share read as a tree.
C30_FiniteTree ==
    /\ [](\A i \in 1..Len(builders.heap) :
            Returns(builders.heap, i, Len(builders.heap)))
    /\ [][\A i \in 1..Len(builders.heap) :
            i \notin TopObjects => builders'.heap[i] = builders.heap[i]]_vars

\* C30 witness: x holds a group, x.Group("name", x) was called, the new
\* group points to the object of the old one, and x.String() returned.
C30_Witness ==
    LET top == builders.fields["x"] IN
    /\ builders.self
    /\ builders.heap[top]["id"] > NilEntry
    /\ builders.heap[top]["name"] > NilEntry
    /\ builders.heap[builders.heap[top]["name"]]["id"] = builders.heap[top]["id"]
    /\ builders.out = Ptr("x")

\* ------------------------------------------------ two builders from New
\* The map an object holds, as a value: what fieldsToString reads.
RECURSIVE unfold(_, _, _)
unfold(heap, i, fuel) ==
    IF i = NoMap \/ fuel = 0 THEN EmptyMap
    ELSE [k \in {q \in HeapKeys : heap[i][q] # Absent} |->
            IF heap[i][k] = NilEntry THEN Nil
            ELSE Ptr(unfold(heap, heap[i][k], fuel - 1))]

\* tripletex.go:213-215 h.String(), on the heap st.
heapString(st, h) == fieldsToString(unfold(st.heap, st.fields[h], Len(st.heap)))

\* The calling code holds x := Builder.New() and y := Builder.New().
OwnerHandles == {"x", "y"}

\* One-member argument lists: a string, or one of the two builders.
OwnerMemberLists == {<<HStr("id")>>} \cup {<<HBld(h)>> : h \in OwnerHandles}

\* grouped: the first call p.Group(name, b) with b another builder than p
\* (Nil: none yet); last: the builder of the latest call.
OwnerInit ==
    [heap |-> <<EmptyObject, EmptyObject>>,
     fields |-> [h \in OwnerHandles |-> IF h = "x" THEN 1 ELSE 2],
     grouped |-> Nil,
     last |-> Nil]

InitOwner ==
    /\ ClientUnused
    /\ legacy = NoLegacy
    /\ builders = OwnerInit

OwnerCallAll(h) ==
    LET st == heapAdd(builders, h, "*") IN
    /\ Len(st.heap) <= MaxMaps
    /\ builders' = [st EXCEPT !.last = Ptr(h)]
    /\ UNCHANGED client

OwnerCallAdd(h, name) ==
    LET st == heapAdd(builders, h, name) IN
    /\ Len(st.heap) <= MaxMaps
    /\ builders' = [st EXCEPT !.last = Ptr(h)]
    /\ UNCHANGED client

OwnerCallGroup(h, name, f) ==
    LET st == heapGroup(builders, h, name, f) IN
    /\ Len(st.heap) <= MaxMaps
    /\ builders' = [st EXCEPT
            !.last = Ptr(h),
            !.grouped = IF IsNil(@) /\ f[1].kind = "builder" /\ f[1].name # h
                        THEN Ptr([p |-> h, name |-> name, b |-> f[1].name])
                        ELSE @]
    /\ UNCHANGED client

NextOwner ==
    \E h \in OwnerHandles :
        \/ OwnerCallAll(h)
        \/ OwnerCallAdd(h, "id")
        \/ \E name \in HeapKeys \ {"*"}, f \in OwnerMemberLists :
                OwnerCallGroup(h, name, f)

SpecOwner == InitOwner /\ [][NextOwner]_vars

Reshaped(fb, fb2, name) ==
    LET m == made(fb)
        m2 == made(fb2)
    IN IF name \notin DOMAIN m THEN "none"
       ELSE IF ~IsNil(m[name]) /\ IsNil(m2[name]) THEN "leaf"
       ELSE IF IsNil(m[name]) /\ ~IsNil(m2[name]) THEN "group"
       ELSE "none"

\* x := Builder.New().  last: the latest construction call, its name and
\* what it did to the entry; out: what String returned since (Nil: not
\* called).
ShapeInit ==
    [obj |-> New, last |-> [op |-> "New", name |-> "", reshape |-> "none"], out |-> Nil]

InitShape ==
    /\ ClientUnused
    /\ legacy = NoLegacy
    /\ builders = ShapeInit

ShapeStored(op, fb, name) ==
    [obj |-> fb,
     last |-> [op |-> op, name |-> name, reshape |-> Reshaped(builders.obj, fb, name)],
     out |-> Nil]

ShapeAll ==
    /\ builders' = ShapeStored("All", All(builders.obj), "*")
    /\ UNCHANGED client

ShapeAdd(name) ==
    /\ builders' = ShapeStored("Add", Add(builders.obj, name), name)
    /\ UNCHANGED client

ShapeGroup(name, f) ==
    /\ builders' = ShapeStored("Group", Group(builders.obj, name, f), name)
    /\ UNCHANGED client

ShapeString ==
    /\ \E r \in String(builders.obj) : builders' = [builders EXCEPT !.out = Ptr(r)]
    /\ UNCHANGED client

NextShape ==
    \/ ShapeAll
    \/ \E name \in FieldNames :
        \/ ShapeAdd(name)
        \/ \E f \in MemberLists : ShapeGroup(name, f)
    \/ ShapeString

SpecShape == InitShape /\ [][NextShape]_vars

\* The name of an entry of a serialization: what stands before its "(".
RECURSIVE EntryName(_)
EntryName(e) ==
    IF e = <<>> \/ Head(e) = "(" THEN <<>> ELSE <<Head(e)>> \o EntryName(Tail(e))

\* No two entries of any level of the serialization s bear the same name.
RECURSIVE UniqueNames(_)
UniqueNames(s) ==
    s = <<>> \/
    LET entries == Split(s, 0, <<>>, <<>>) IN
    /\ \A i, j \in 1..Len(entries) :
            i # j => EntryName(entries[i]) # EntryName(entries[j])
    /\ \A i \in 1..Len(entries) :
            LET e == entries[i]
                n == Len(EntryName(e))
            IN n < Len(e) => UniqueNames(SubSeq(e, n + 2, Len(e) - 1))

\* C32: no name appears twice at a level of what String returns, with one
\* entry per name held; after Add(n) the name n is a leaf and after
\* Group(n, ...) it is a group, whatever it was before.
C32_UniqueKeys ==
    /\ ~IsNil(builders.out)
       => /\ UniqueNames(Deref(builders.out))
          /\ Len(Split(Deref(builders.out), 0, <<>>, <<>>))
                = IF DOMAIN made(builders.obj) = {} THEN 1
                  ELSE Cardinality(DOMAIN made(builders.obj))
    /\ builders.last.op \in {"All", "Add"}
       => /\ builders.last.name \in DOMAIN made(builders.obj)
          /\ IsNil(made(builders.obj)[builders.last.name])
    /\ builders.last.op = "Group"
       => /\ builders.last.name \in DOMAIN made(builders.obj)
          /\ ~IsNil(made(builders.obj)[builders.last.name])

\* C32 witness: Add("id") came after a Group("id", ...), and String
\* returned an output with id as a bare leaf next to a group.
C32_Witness ==
    /\ builders.last = [op |-> "Add", name |-> "id", reshape |-> "leaf"]
    /\ builders.out = Ptr(<<"i", "d", ",", "i", "d", "!", "(", "i", "d", ")">>)

\* ------------------------------------------------- members of other types
\* f without the members the type switch of Group has no case for.
Kept(f) == SelectSeq(f, LAMBDA field : field.kind \in {"string", "builder"})

\* C33: Group(name, f...) gives the tree the same call gives with the
\* members of other types removed; and when no member is left, or none was
\* given, name holds an empty subtree and is rendered "name()".
C33_OtherIgnored ==
    ~IsNil(builders.result)
    => LET res == Deref(builders.result) IN
       /\ res = Group(builders.fb, builders.name, Kept(builders.f))
       /\ Kept(builders.f) = <<>>
          => /\ made(res)[builders.name] = Ptr(EmptyMap)
             /\ \A s \in String(res) :
                    \E i \in 1..Len(Split(s, 0, <<>>, <<>>)) :
                        Split(s, 0, <<>>, <<>>)[i] = Chars[builders.name] \o <<"(", ")">>

\* C33 witness: Add("id") then Group("id!", v, w) with v and w of other
\* types gave "id,id!()".
C33_Witness ==
    /\ builders.fb = Add(New, "id") /\ builders.name = "id!"
    /\ builders.f = <<Other, Other>>
    /\ ~IsNil(builders.result)
    /\ String(Deref(builders.result))
            = {<<"i", "d", ",", "i", "d", "!", "(", ")">>}

\* ------------------------------------------------ the three serializers
\* client.go:258-270 fieldsToString of the in-package FieldsBuilder.
RECURSIVE clientFieldsToString(_), clientAppended(_, _)
clientAppended(input, S) ==
    IF S = {} THEN {<<>>}
    ELSE UNION {
            {Append(s, e) :
                s \in clientAppended(input, S \ {k}),
                e \in IF IsNil(input[k]) THEN {Chars[k]}
                      ELSE {Sprintf(k, r) : r \in clientFieldsToString(Deref(input[k]))}} :
            k \in S}
clientFieldsToString(input) ==
    {Join(Sort(s)) : s \in clientAppended(input, DOMAIN input)}

\* The legacy FieldsBuilder(input Fields) of pkg/tripletex, over
\* type Fields map[string]*Fields.
RECURSIVE FieldsBuilder(_), legacyAppended(_, _)
legacyAppended(input, S) ==
    IF S = {} THEN {<<>>}
    ELSE UNION {
            {Append(s, e) :
                s \in legacyAppended(input, S \ {k}),
                e \in IF IsNil(input[k]) THEN {Chars[k]}
                      ELSE {Sprintf(k, r) : r \in FieldsBuilder(Deref(input[k]))}} :
            k \in S}
FieldsBuilder_Unsorted(input) ==
    {Join(s) : s \in legacyAppended(input, DOMAIN input)}
FieldsBuilder(input) ==
    {Join(Sort(s)) : s \in legacyAppended(input, DOMAIN input)}

\* The tree of the tests' "short" case.
ShortTree ==
    ("*" :> Nil) @@
    ("orders" :> Ptr(("id" :> Nil) @@ ("project" :> Ptr("id" :> Nil))))

\* C34: for the tree a builder holds, the String of the fields package, the
\* String of the in-package FieldsBuilder and the legacy FieldsBuilder
\* function return the same one string, the one String returned; and on the
\* tree of the tests all three give "*,orders(id,project(id))".
C34_SerializersAgree ==
    /\ LET m == made(builders.obj) IN
       /\ Cardinality(fieldsToString(m)) = 1
       /\ clientFieldsToString(m) = fieldsToString(m)
       /\ FieldsBuilder(m) = fieldsToString(m)
       /\ ~IsNil(builders.out) => FieldsBuilder(m) = {Deref(builders.out)}
    /\ \A r \in {fieldsToString(ShortTree), clientFieldsToString(ShortTree),
                 FieldsBuilder(ShortTree)} :
            r = {<<"*", ",", "o", "r", "d", "e", "r", "s", "(", "i", "d", ",",
                   "p", "r", "o", "j", "e", "c", "t", "(", "i", "d", ")", ")">>}

\* C34 witness: String returned for a tree with two leaves and a group that
\* holds a group.
C34_Witness ==
    LET m == made(builders.obj) IN
    /\ ~IsNil(builders.out)
    /\ DOMAIN m = {"*", "id", "id!"}
    /\ IsNil(m["*"]) /\ IsNil(m["id"]) /\ ~IsNil(m["id!"])
    /\ \E k \in DOMAIN Deref(m["id!"]) : ~IsNil(Deref(m["id!"])[k])

\* ------------------------------------------------------ canonical output
\* The trees of depth two over the names in use: a name is absent, a leaf,
\* or a group of leaves (the empty group included).
LeafMaps == UNION {[S -> {Nil}] : S \in SUBSET FieldNames}
SmallTrees ==
    UNION {[S -> {Nil} \cup {Ptr(l) : l \in LeafMaps}] : S \in SUBSET FieldNames}

\* C35: the string String returned is the string of no other tree: a tree
\* that serializes to it is the tree the builder holds.
C35_Injective ==
    ~IsNil(builders.out)
    => \A t \in SmallTrees :
            Deref(builders.out) \in fieldsToString(t) => t = made(builders.obj)

\* C35 witness: String returned "id()" for the empty group id, while the
\* leaf id, another tree, gives "id".
C35_Witness ==
    /\ builders.out = Ptr(<<"i", "d", "(", ")">>)
    /\ made(builders.obj) = ("id" :> Ptr(EmptyMap))
    /\ made(builders.obj) \in SmallTrees
    /\ ("id" :> Nil) \in SmallTrees
    /\ fieldsToString("id" :> Nil) = {<<"i", "d">>}

\* ------------------------------------------------------- the same call again
\* What every builder holds, as values.
Held(st) == [g \in BuilderHandles |-> unfold(st.heap, st.fields[g], Len(st.heap))]

\* The builders before the call: untouched, or after x.Add("id"),
\* x.Group("id", "id"), Builder.Add("id"), or x.All() and
\* Builder.Group("name", x).
RepeatStarts ==
    {HeapInit,
     heapAdd(HeapInit, "x", "id"),
     heapGroup(HeapInit, "x", "id", <<HStr("id")>>),
     heapAdd(HeapInit, "Builder", "id"),
     heapGroup(heapAdd(HeapInit, "x", "*"), "Builder", "name", <<HBld("x")>>)}

\* The calls: All, Add, Group and String on either builder.
RepeatCalls ==
    {[op |-> op, h |-> h, name |-> "*", f |-> <<>>] :
        op \in {"All", "String"}, h \in BuilderHandles}
    \cup {[op |-> "Add", h |-> h, name |-> "id", f |-> <<>>] : h \in BuilderHandles}
    \cup {[op |-> "Group", h |-> h, name |-> name, f |-> f] :
            h \in BuilderHandles, name \in HeapKeys \ {"*"}, f \in HeapMemberLists}

\* The builders after the call c; String writes to nothing.
heapCall(st, c) ==
    CASE c.op = "All" -> heapAdd(st, c.h, "*")
      [] c.op = "Add" -> heapAdd(st, c.h, c.name)
      [] c.op = "Group" -> heapGroup(st, c.h, c.name, c.f)
      [] OTHER -> st

\* A start and a call; n: how often the call was made; once: what the
\* builders held, and what String gave for each, after the first time.
InitRepeat ==
    /\ ClientUnused
    /\ legacy = NoLegacy
    /\ \E st \in RepeatStarts, c \in RepeatCalls :
            builders = [st |-> st, call |-> c, n |-> 0, once |-> Nil]

\* The call, for the first time.
RepeatFirst ==
    /\ builders.n = 0
    /\ LET st == heapCall(builders.st, builders.call) IN
       builders' = [builders EXCEPT
            !.st = st, !.n = 1,
            !.once = Ptr([held |-> Held(st),
                          out |-> [g \in BuilderHandles |-> heapString(st, g)]])]
    /\ UNCHANGED client

\* The same call again.
RepeatAgain ==
    /\ builders.n = 1
    /\ builders' = [builders EXCEPT
            !.st = heapCall(builders.st, builders.call), !.n = 2]
    /\ UNCHANGED client

NextRepeat == RepeatFirst \/ RepeatAgain

SpecRepeat == InitRepeat /\ [][NextRepeat]_vars

\* After the second call every builder holds, and String returns, what it
\* did after the first; and String left the maps as they were.
SameAsOnce ==
    /\ Held(builders.st) = Deref(builders.once).held
    /\ \A g \in BuilderHandles :
            /\ heapString(builders.st, g) = Deref(builders.once).out[g]
            /\ Cardinality(heapString(builders.st, g)) = 1

\* The receiver of the call is one of its own members.
SelfMember ==
    \E i \in 1..Len(builders.call.f) : builders.call.f[i] = HBld(builders.call.h)

\* C36 as stated: All, Add and Group are idempotent, whatever the members
\* of Group, and String returns the same string again and changes nothing.
C36_Idempotent ==
    /\ [](builders.n = 2 => SameAsOnce)
    /\ [][builders.call.op = "String" => builders'.st = builders.st]_vars

\* C36 amended: All and Add are idempotent and String is read-only; Group
\* is idempotent when the receiver is not one of its own members.
C36_IdempotentUnlessSelf ==
    /\ [](builders.n = 2 /\ ~SelfMember => SameAsOnce)
    /\ [][builders.call.op = "String" => builders'.st = builders.st]_vars

\* C36 witness: Builder holds a group; x.Group("id", "id", Builder) ran
\* twice and x holds a group in a group, as after the first call.
C36_Witness ==
    /\ builders.n = 2
    /\ builders.call = [op |-> "Group", h |-> "x", name |-> "id",
                        f |-> <<HStr("id"), HBld("Builder")>>]
    /\ Held(builders.st)["Builder"] = ("name" :> Ptr("*" :> Nil))
    /\ Held(builders.st)["x"]
            = ("*" :> Nil) @@ ("id" :> Ptr(("id" :> Nil) @@ ("name" :> Ptr("*" :> Nil))))

====
